---- MODULE Spec2Model ----
(***************************************************************************)
(* Model of the session store, the auth gate, the event stream and the     *)
(* workers of stoqserver/lib/restful.py, and of the webRTC supervisor and  *)
(* the backup schedule of stoqserver/tasks.py.  Each part has its own      *)
(* specification over the same variables.                                  *)
(*                                                                         *)
(* The Flask server runs with threaded=True (restful.py:1041): every       *)
(* request is handled on its own thread.  A handler is modelled block by   *)
(* block (pc); a block ends where the handler blocks on I/O and the        *)
(* interpreter hands the lock to another thread: reading the session       *)
(* file, opening it for writing, writing it, running the wrapped handler.  *)
(*                                                                         *)
(* Time is counted in ticks of the expiry time: _expire_time               *)
(* (timedelta(days=1)) is ExpireTime = 1 tick.                             *)
(***************************************************************************)
EXTENDS Integers, Sequences, FiniteSets, TLC

\* ---------------------------------------------------------------- bounds
MaxTime == 2          \* the clock stops after MaxTime ticks
MaxReq == 3           \* at most MaxReq requests are handled
MaxCalls == 4         \* at most MaxCalls subscribes, publishes and disconnects
MaxFrames == 3        \* at most MaxFrames frames are sent to the clients
MaxSamples == 6       \* at most MaxSamples samples of the drawer status
MaxNotifies == 3      \* at most MaxNotifies notifications are sent
MaxPolls == 3         \* at most MaxPolls rounds of the notification worker
MaxChildren == 3      \* at most MaxChildren webRTC helper children are spawned
MaxOccur == 2         \* at most MaxOccur occurrences of a scheduled backup
MaxStarts == 2        \* the backup scheduler is started at most MaxStarts times
MaxPuts == 2          \* a worker publishes at most MaxPuts events
MaxServed == 2        \* at most MaxServed requests are served beside the workers
MaxJobs == 3          \* the reactor runs at most MaxJobs backup jobs

\* ------------------------------------------------------------- constants
ExpireTime == 1       \* _expire_time = datetime.timedelta(days=1)

\* two request threads of the threaded server: handlers overlap pairwise
Threads == {1, 2}
\* the clients of /stream (one queue each) and the threads that publish
Clients == 1..MaxCalls
Publishers == {1, 2}
Events == 1..MaxCalls
Users == {"u1", "u2"}
\* dict objects created by pickle.load / {} in _get_session; a thread holds
\* at most one (s) and the module holds one (_session)
Objs == 1..(Cardinality(Threads) + 1)
None == 0

\* a session dict: session id -> {'date': ..., 'user_id': ...}
EmptyDict == [k \in {} |-> [date |-> 0, user_id |-> "u1"]]

\* the decorated resources: Resource.method_decorators of each class
DrawerDecorators == <<"_login_required">>
DataDecorators == <<"_login_required", "_store_provider">>
Resources == {DrawerDecorators, DataDecorators}

VARIABLES
    now,            \* localnow()
    file,           \* the session file: [state, data]
    g_last_gc,      \* module global _last_gc: <<>> is None, <<t>> a time
    g_session,      \* module global _session: the dict object it is bound to
    heap,           \* the dict objects
    pc,             \* per thread: position in its handler
    req,            \* per thread: the request being handled
    s,              \* per thread: `with _get_session() as s`
    session_id,     \* per thread: LoginResource.post's local session_id
    flask_session,  \* per thread: flask session['user_id'] (request scoped)
    response,       \* per thread: the status of the response
    hist,           \* per thread: what _login_required read (history)
    owner,          \* history: session id -> user and time it was created
    gc_log,         \* history: <<>> or the last GC pass: dict before, after
    next_uuid,      \* the next value of uuid.uuid1()
    nreq,           \* the number of requests received
    streams,        \* EventStream._streams: the list of queues
    queue,          \* per queue: its items, oldest first
    wire,           \* per queue: the frames its _loop generator has yielded
    sub,            \* per client: position in EventStream.get
    pub,            \* per publisher: position in EventStream.put
    puts,           \* history, per queue: every item ever put, in order
    began,          \* history, per event: the state put(event) started in
    ended,          \* history: the events whose put has returned
    past,           \* history, per queue: the value of ended when appended
    left,           \* per client: <<>>, or the events begun when it went away
    drawer_pc,      \* check_drawer_loop: position
    is_open,        \* check_drawer_loop: its local is_open
    samples,        \* history: the values DrawerResource._is_open returned
    alerts,         \* history: the drawer events put, and after which sample
    listen_pc,      \* _postgres_listen: position in its round
    message,        \* _postgres_listen: its local message (the dirty flag)
    socket,         \* the notifications sent and not yet read by conn.poll()
    polls,          \* history, per round: what it drained, what it published
    nnotify,        \* the number of notifications sent
    arrived,        \* history: each notification's table, and the round and
                    \* the position of the worker it arrived at
    rtc_pc,         \* start_rtc: position
    retry,          \* start_rtc: its local retry
    popen,          \* start_rtc: the child its local popen is bound to
    handler,        \* the process's SIGTERM handler
    children,       \* the helper children spawned, in order (history)
    rtc_now,        \* time.time() of the supervisor, in seconds
    rtc_exit,       \* how the supervisor process ended, if it has
    bk_pc,          \* the backup schedule and _backup_task: position
    argv,           \* sys.argv
    bk_i,           \* _backup_task: its local i
    bk_iter,        \* _backup_task: the items xrange(3) has still to give
    bk_now,         \* the reactor's clock, in seconds
    bk_start,       \* LoopingCall.starttime
    bk_runs,        \* history, per occurrence: its time and its attempts
    sch_pc,         \* start_backup_scheduler and the reactor: position
    config,         \* the configuration's Backup/schedule: None or a string
    backup_hours,   \* start_backup_scheduler: its local backup_hours
    timers,         \* per trigger time: its LoopingCall and the time it is due
    sch_log,        \* history, per start: was a schedule chosen, backup_hours
    sch_now,        \* per trigger time: the datetime.now() it was scheduled at
    WORKERS,        \* module global WORKERS: the functions registered
    work_pc,        \* the server process: import, run_flaskserver, app.run
    threads,        \* the threads threadit started, in order
    published,      \* history, per worker function: the events it has put
    served,         \* history: the requests served
    rs_pc,          \* restore_database: position
    rs_config,      \* the configuration's Database section
    rs_log,         \* history: the steps run, their command lines and exits
    default_store,  \* stoqlib's default store: open or closed
    tmp_path,       \* the directory of tempfile.mkdtemp(): none, there, gone
    rs_error,       \* the exception on its way to the caller, or "none"
    rx_pc,          \* the reactor thread: idle, or where in _backup_task
    rx_now,         \* the reactor's clock, in seconds
    rx_argv,        \* sys.argv
    rx_calls,       \* per trigger time: its delayed call / LoopingCall
    rx_task,        \* the _backup_task that runs: its trigger, its xrange
    jobs,           \* history: the calls of _backup_task, begin and end
    procs           \* history: the backup subprocesses, begin and end

sessionVars == <<now, file, g_last_gc, g_session, heap, pc, req, s, session_id,
                 flask_session, response, hist, owner, gc_log, next_uuid,
                 nreq>>

streamVars == <<streams, queue, wire, sub, pub, puts, began, ended, past,
    left>>

drawerVars == <<drawer_pc, is_open, samples, alerts>>

listenVars == <<listen_pc, message, socket, polls, nnotify, arrived>>

rtcVars == <<rtc_pc, retry, popen, handler, children, rtc_now, rtc_exit>>

backupVars == <<bk_pc, argv, bk_i, bk_iter, bk_now, bk_start, bk_runs>>

schedVars == <<sch_pc, config, backup_hours, timers, sch_log, sch_now>>

workerVars == <<WORKERS, work_pc, threads, published, served>>

restoreVars == <<rs_pc, rs_config, rs_log, default_store, tmp_path, rs_error>>

reactorVars == <<rx_pc, rx_now, rx_argv, rx_calls, rx_task, jobs, procs>>

\* what the handlers, the event stream and each worker leave alone
nonSessionVars == <<streamVars, drawerVars, listenVars, rtcVars, backupVars,
    schedVars, workerVars, restoreVars, reactorVars>>
nonStreamVars == <<sessionVars, drawerVars, listenVars, rtcVars, backupVars,
    schedVars, workerVars, restoreVars, reactorVars>>
nonDrawerVars == <<sessionVars, streamVars, listenVars, rtcVars, backupVars,
    schedVars, workerVars, restoreVars, reactorVars>>
nonListenVars == <<sessionVars, streamVars, drawerVars, rtcVars, backupVars,
    schedVars, workerVars, restoreVars, reactorVars>>
nonRtcVars == <<sessionVars, streamVars, drawerVars, listenVars, backupVars,
    schedVars, workerVars, restoreVars, reactorVars>>
nonBackupVars == <<sessionVars, streamVars, drawerVars, listenVars, rtcVars,
    schedVars, workerVars, restoreVars, reactorVars>>
nonSchedVars == <<sessionVars, streamVars, drawerVars, listenVars, rtcVars,
    backupVars, workerVars, restoreVars, reactorVars>>
nonWorkerVars == <<sessionVars, streamVars, drawerVars, listenVars, rtcVars,
    backupVars, schedVars, restoreVars, reactorVars>>
nonRestoreVars == <<sessionVars, streamVars, drawerVars, listenVars,
    rtcVars, backupVars, schedVars, workerVars, reactorVars>>
nonReactorVars == <<sessionVars, streamVars, drawerVars, listenVars,
    rtcVars, backupVars, schedVars, workerVars, restoreVars>>

vars == <<sessionVars, streamVars, drawerVars, listenVars, rtcVars,
    backupVars, schedVars, workerVars, restoreVars, reactorVars>>

NoReq == [kind |-> "none", user |-> "u1", header |-> None, decorators |-> <<>>]
NoHist == [found |-> FALSE, chk_date |-> 0, chk_at |-> 0, gc |-> {}]

SessionInit ==
    /\ now = 0
    /\ file = [state |-> "absent", data |-> EmptyDict]
    /\ g_last_gc = <<>>
    /\ g_session = None
    /\ heap = [o \in Objs |-> EmptyDict]
    /\ pc = [t \in Threads |-> "idle"]
    /\ req = [t \in Threads |-> NoReq]
    /\ s = [t \in Threads |-> None]
    /\ session_id = [t \in Threads |-> None]
    /\ flask_session = [t \in Threads |-> "none"]
    /\ response = [t \in Threads |-> 0]
    /\ hist = [t \in Threads |-> NoHist]
    /\ owner = [k \in {} |-> [user_id |-> "u1", date |-> 0]]
    /\ gc_log = <<>>
    /\ next_uuid = 1
    /\ nreq = 0

\* ---------------------------------------------------------------- helpers

\* now - date > _expire_time
\* (mutants: the comparison is not strict; nothing ever expires)
ExpiredLoose(at, date) == at - date >= ExpireTime
ExpiredNever(at, date) == FALSE
Expired(at, date) == at - date > ExpireTime

\* a dict object is alive while the module global or a with-block holds it
Live(o) == o = g_session \/ \E t \in Threads : s[t] = o

\* d[k] = v
DictSet(d, k, v) == [x \in DOMAIN d \cup {k} |-> IF x = k THEN v ELSE d[x]]

\* del d[k] for every k in ks
DictDel(d, ks) == [x \in DOMAIN d \ ks |-> d[x]]

\* pickle.load(f) of the session file, or {} when the file does not exist
\* or cannot be unpickled (a file opened 'wb' and not yet written is empty)
LoadFile == IF file.state = "ok" THEN file.data ELSE EmptyDict

\* Python's reference counting: a dict object nobody holds is gone.  h, g,
\* ss are the heap, _session and s after the step.
Refcount(h, g, ss) ==
    [o \in Objs |-> IF o = g \/ \E t \in Threads : ss[t] = o THEN h[o]
                                                              ELSE EmptyDict]

\* flask_restful's Resource.dispatch_request applies method_decorators in
\* list order, so a later decorator wraps an earlier one.  An abort(code)
\* raised in _login_required is a werkzeug HTTPException, an Exception: a
\* _store_provider around it catches it and aborts with 500.
AbortThrough(decorators, code) ==
    LET i == CHOOSE j \in 1..Len(decorators) : decorators[j] = "_login_required"
    IN IF \E j \in (i + 1)..Len(decorators) : decorators[j] = "_store_provider"
       THEN 500 ELSE code

\* now - (_last_gc or datetime.datetime.min) > _expire_time
GCDue == g_last_gc = <<>> \/ now - g_last_gc[1] > ExpireTime

\* the entries the GC pass deletes from the dict d at time at
GCVictims(d, at) == {k \in DOMAIN d : Expired(at, d[k].date)}

\* the GC pass of _get_session over the dict d
\* (mutant: the pass deletes nothing)
GCPassNone(d) == d
GCPass(d) == IF GCDue THEN DictDel(d, GCVictims(d, now)) ELSE d

\* the entries the GC pass of this step deletes (history)
GCRemoved == IF GCDue THEN GCVictims(heap[g_session], now) ELSE {}

\* what the GC pass of this step did (history)
GCLog == IF GCDue THEN <<[before |-> heap[g_session],
                         after |-> GCPass(heap[g_session])]>>
                  ELSE gc_log

\* the clock
Tick ==
    /\ now < MaxTime
    /\ now' = now + 1
    /\ UNCHANGED <<file, g_last_gc, g_session, heap, pc, req, s, session_id,
                   flask_session, response, hist, owner, gc_log, next_uuid, nreq>>
    /\ UNCHANGED nonSessionVars

\* ------------------------------------------------- requests (handlers)

\* the users a login can name: user names are interchangeable, so the first
\* user to appear is "u1"
Known == {owner[k].user_id : k \in DOMAIN owner}
            \cup {req[t].user : t \in {u \in Threads : req[u].kind = "login"}}
LoginUsers == IF Known = {} THEN {"u1"} ELSE Users

\* LoginResource.post up to the with-block: LoginUser.authenticate either
\* returns the user or raises LoginError
LoginStart(t) ==
    /\ pc[t] = "idle"
    /\ nreq < MaxReq
    /\ nreq' = nreq + 1
    /\ \E user \in LoginUsers, authenticated \in BOOLEAN :
          /\ req' = [req EXCEPT ![t] = [kind |-> "login", user |-> user,
                                        header |-> None, decorators |-> <<>>]]
          /\ IF authenticated
             THEN /\ pc' = [pc EXCEPT ![t] = "load"]
                  /\ UNCHANGED response
             ELSE /\ pc' = [pc EXCEPT ![t] = "done"]
                  /\ response' = [response EXCEPT ![t] = 403]
    /\ UNCHANGED <<now, file, g_last_gc, g_session, heap, s, session_id,
                   flask_session, hist, owner, gc_log, next_uuid>>
    /\ UNCHANGED nonSessionVars

\* abort(code) raised in _login_required, on its way out of the resource's
\* decorators.  The resource the request was routed to shows only here, so
\* it is drawn here.
Abort(t, header, code) ==
    /\ \E decorators \in Resources :
          /\ req' = [req EXCEPT ![t] = [kind |-> "protected", user |-> "u1",
                                        header |-> header,
                                        decorators |-> decorators]]
          /\ response' = [response EXCEPT ![t] = AbortThrough(decorators, code)]
    /\ pc' = [pc EXCEPT ![t] = "done"]

\* a request to a resource decorated with _login_required: the header check
ProtectedStart(t) ==
    /\ pc[t] = "idle"
    /\ nreq < MaxReq
    /\ nreq' = nreq + 1
    /\ \E header \in {None} \cup 1..next_uuid :
          IF header = None
          THEN Abort(t, None, 401)
          ELSE /\ req' = [req EXCEPT ![t] = [kind |-> "protected",
                                             user |-> "u1", header |-> header,
                                             decorators |-> <<>>]]
               /\ pc' = [pc EXCEPT ![t] = "load"]
               /\ UNCHANGED response
    /\ UNCHANGED <<now, file, g_last_gc, g_session, heap, s, session_id,
                   flask_session, hist, owner, gc_log, next_uuid>>
    /\ UNCHANGED nonSessionVars

\* _get_session: _session = pickle.load(f) / {}, a new dict object
Load(t) ==
    /\ pc[t] = "load"
    /\ LET o == CHOOSE x \in Objs : ~Live(x) /\ \A y \in Objs : ~Live(y) => x <= y
       IN /\ g_session' = o
          /\ heap' = Refcount([heap EXCEPT ![o] = LoadFile], o, s)
    /\ pc' = [pc EXCEPT ![t] = "enter"]
    /\ UNCHANGED <<now, file, g_last_gc, s, req, session_id, flask_session,
                   response, hist, owner, gc_log, next_uuid, nreq>>
    /\ UNCHANGED nonSessionVars

\* LoginResource.post: _get_session's GC pass over the module global
\* _session, its yield, and the body of the with-block
Create(t) ==
    /\ pc[t] = "enter"
    /\ req[t].kind = "login"
    /\ s' = [s EXCEPT ![t] = g_session]
    /\ g_last_gc' = IF GCDue THEN <<now>> ELSE g_last_gc
    /\ gc_log' = GCLog
    /\ session_id' = [session_id EXCEPT ![t] = next_uuid]
    /\ next_uuid' = next_uuid + 1
    /\ heap' = [heap EXCEPT ![g_session] =
                   DictSet(GCPass(heap[g_session]), next_uuid,
                           [date |-> now, user_id |-> req[t].user])]
    /\ owner' = DictSet(owner, next_uuid, [user_id |-> req[t].user, date |-> now])
    /\ pc' = [pc EXCEPT ![t] = "save_open"]
    /\ hist' = [hist EXCEPT ![t].gc = GCRemoved]
    /\ UNCHANGED <<now, file, g_session, req, flask_session, response, nreq>>
    /\ UNCHANGED nonSessionVars

\* _login_required: _get_session's GC pass over the module global _session,
\* its yield, and the body of the with-block.  An abort raised in the body
\* leaves the with-block through the generator's yield: the code after the
\* yield (the pickle.dump) does not run.
Validate(t) ==
    /\ pc[t] = "enter"
    /\ req[t].kind = "protected"
    /\ g_last_gc' = IF GCDue THEN <<now>> ELSE g_last_gc
    /\ gc_log' = GCLog
    /\ LET d == GCPass(heap[g_session])
           k == req[t].header
       IN IF k \notin DOMAIN d
          THEN \* abort(401, 'Session does not exist')
               /\ Abort(t, k, 401)
               /\ heap' = Refcount([heap EXCEPT ![g_session] = d], g_session, s)
               /\ hist' = [hist EXCEPT ![t].gc = GCRemoved]
               /\ UNCHANGED <<s, flask_session>>
          ELSE IF Expired(now, d[k].date)
          THEN \* abort(401, 'Session expired')
               /\ Abort(t, k, 401)
               /\ heap' = Refcount([heap EXCEPT ![g_session] = d], g_session, s)
               /\ hist' = [hist EXCEPT ![t] = [found |-> TRUE,
                                               chk_date |-> d[k].date,
                                               chk_at |-> now,
                                               gc |-> GCRemoved]]
               /\ UNCHANGED <<s, flask_session>>
          ELSE \* the refresh, and the principal
               /\ s' = [s EXCEPT ![t] = g_session]
               /\ heap' = [heap EXCEPT ![g_session] =
                              [d EXCEPT ![k].date = now]]
               /\ flask_session' = [flask_session EXCEPT ![t] = d[k].user_id]
               /\ hist' = [hist EXCEPT ![t] = [found |-> TRUE,
                                               chk_date |-> d[k].date,
                                               chk_at |-> now,
                                               gc |-> GCRemoved]]
               /\ pc' = [pc EXCEPT ![t] = "save_open"]
               /\ UNCHANGED <<req, response>>
    /\ UNCHANGED <<now, file, g_session, session_id, owner, next_uuid, nreq>>
    /\ UNCHANGED nonSessionVars

\* _get_session after the yield: open(session_file, 'wb') truncates the file
SaveOpen(t) ==
    /\ pc[t] = "save_open"
    /\ file' = [state |-> "truncated", data |-> EmptyDict]
    /\ pc' = [pc EXCEPT ![t] = "save_dump"]
    /\ UNCHANGED <<now, g_last_gc, g_session, heap, s, req, session_id,
                   flask_session, response, hist, owner, gc_log, next_uuid, nreq>>
    /\ UNCHANGED nonSessionVars

\* the request is over: its thread takes the next request
Idle(t) ==
    /\ pc' = [pc EXCEPT ![t] = "idle"]
    /\ req' = [req EXCEPT ![t] = NoReq]
    /\ session_id' = [session_id EXCEPT ![t] = None]
    /\ flask_session' = [flask_session EXCEPT ![t] = "none"]
    /\ response' = [response EXCEPT ![t] = 0]
    /\ hist' = [hist EXCEPT ![t] = NoHist]

\* LoginResource.post: _get_session after the yield, pickle.dump(_session, f)
\* of the module global, and return session_id
LoginSaveDump(t) ==
    /\ pc[t] = "save_dump"
    /\ req[t].kind = "login"
    /\ file' = [state |-> "ok", data |-> heap[g_session]]
    /\ s' = [s EXCEPT ![t] = None]
    /\ heap' = Refcount(heap, g_session, s')
    /\ Idle(t)
    /\ UNCHANGED <<now, g_last_gc, g_session, owner, gc_log, next_uuid, nreq>>
    /\ UNCHANGED nonSessionVars

\* _login_required: _get_session after the yield, pickle.dump(_session, f)
\* of the module global
SaveDump(t) ==
    /\ pc[t] = "save_dump"
    /\ req[t].kind = "protected"
    /\ file' = [state |-> "ok", data |-> heap[g_session]]
    /\ s' = [s EXCEPT ![t] = None]
    /\ heap' = Refcount(heap, g_session, s')
    /\ pc' = [pc EXCEPT ![t] = "call"]
    /\ UNCHANGED <<now, g_last_gc, g_session, req, session_id, flask_session,
                   response, hist, owner, gc_log, next_uuid, nreq>>
    /\ UNCHANGED nonSessionVars

\* _login_required: return f(*args, **kwargs), the wrapped operation
Call(t) ==
    /\ pc[t] = "call"
    /\ Idle(t)
    /\ UNCHANGED <<now, file, g_last_gc, g_session, heap, s, owner, gc_log,
                   next_uuid, nreq>>
    /\ UNCHANGED nonSessionVars

\* the response of a request that was aborted is sent
\* (mutant: the session file is opened for writing on the way out)
ReturnWrites(t) ==
    /\ pc[t] = "done"
    /\ Idle(t)
    /\ file' = [state |-> "truncated", data |-> EmptyDict]
    /\ UNCHANGED <<now, g_last_gc, g_session, heap, s, owner, gc_log,
                   next_uuid, nreq>>
    /\ UNCHANGED nonSessionVars
Return(t) ==
    /\ pc[t] = "done"
    /\ Idle(t)
    /\ UNCHANGED <<now, file, g_last_gc, g_session, heap, s, owner, gc_log,
                   next_uuid, nreq>>
    /\ UNCHANGED nonSessionVars

\* -------------------------------------------------------- EventStream

\* stream.put(json.dumps({})): the first item, a str
Synthetic == [type |-> "str", id |-> 0]

\* an event put by a worker: a dict
Event(e) == [type |-> "dict", id |-> e]

\* "data: " + json.dumps(data) + "\n\n"
Frame(data) == <<"data: ", [json |-> data], "\n\n">>

\* Queue.put(item)
\* (mutant: the item jumps the queue)
QueuePutFront(q, item) == <<item>> \o q
QueuePut(q, item) == Append(q, item)

StreamInit ==
    /\ streams = <<>>
    /\ queue = [c \in Clients |-> <<>>]
    /\ wire = [c \in Clients |-> <<>>]
    /\ sub = [c \in Clients |-> "idle"]
    /\ pub = [p \in Publishers |-> [pc |-> "idle", data |-> 0, i |-> 0]]
    /\ puts = [c \in Clients |-> <<>>]
    /\ began = [e \in {} |-> 0]
    /\ ended = {}
    /\ past = [c \in Clients |-> {}]
    /\ left = [c \in Clients |-> <<>>]

\* the set of elements of a sequence
Range(f) == {f[i] : i \in DOMAIN f}

\* the calls of EventStream.get and EventStream.put, and the disconnects,
\* so far
Calls == Len(streams) + Cardinality(DOMAIN began)
            + Cardinality({c \in Clients : left[c] # <<>>})

\* the frames sent so far
RECURSIVE SumFrames(_)
SumFrames(cs) ==
    IF cs = {} THEN 0
    ELSE LET c == CHOOSE x \in cs : TRUE
         IN Len(wire[c]) + SumFrames(cs \ {c})
Frames == SumFrames(Clients)

\* EventStream.get: stream = Queue(); self._streams.append(stream)
\* (mutant: the list is rebound to a new list holding only the new queue)
GetAppendReplace(c) ==
    /\ sub[c] = "idle"
    /\ \A d \in Clients : d < c => sub[d] # "idle"
    /\ Calls < MaxCalls
    /\ streams' = <<c>>
    /\ sub' = [sub EXCEPT ![c] = "appended"]
    /\ past' = [past EXCEPT ![c] = ended]
    /\ UNCHANGED <<queue, wire, pub, puts, began, ended, left>>
    /\ UNCHANGED nonStreamVars
GetAppend(c) ==
    /\ sub[c] = "idle"
    /\ \A d \in Clients : d < c => sub[d] # "idle"
    /\ Calls < MaxCalls
    /\ streams' = Append(streams, c)
    /\ sub' = [sub EXCEPT ![c] = "appended"]
    /\ past' = [past EXCEPT ![c] = ended]
    /\ UNCHANGED <<queue, wire, pub, puts, began, ended, left>>
    /\ UNCHANGED nonStreamVars

\* EventStream.get: stream.put(json.dumps({})); return Response(...)
GetPut(c) ==
    /\ sub[c] = "appended"
    /\ queue' = [queue EXCEPT ![c] = QueuePut(queue[c], Synthetic)]
    /\ puts' = [puts EXCEPT ![c] = Append(puts[c], Synthetic)]
    /\ sub' = [sub EXCEPT ![c] = "streaming"]
    /\ UNCHANGED <<streams, wire, pub, began, ended, past, left>>
    /\ UNCHANGED nonStreamVars

\* EventStream._loop: data = stream.get(); yield the frame
Loop(c) ==
    /\ sub[c] = "streaming"
    /\ left[c] = <<>>
    /\ queue[c] # <<>>
    /\ Frames < MaxFrames
    /\ wire' = [wire EXCEPT ![c] = Append(wire[c], Frame(Head(queue[c])))]
    /\ queue' = [queue EXCEPT ![c] = Tail(queue[c])]
    /\ UNCHANGED <<streams, sub, pub, puts, began, ended, past, left>>
    /\ UNCHANGED nonStreamVars

\* the client of a stream disconnects: the response's generator _loop is
\* closed.  Neither get nor _loop has code that runs then: the queue stays
\* in _streams.
\* (mutant: the queue is taken out of the list)
DisconnectRemoves(c) ==
    /\ sub[c] = "streaming"
    /\ left[c] = <<>>
    /\ Calls < MaxCalls
    /\ left' = [left EXCEPT ![c] = <<DOMAIN began>>]
    /\ streams' = SelectSeq(streams, LAMBDA x : x # c)
    /\ UNCHANGED <<queue, wire, sub, pub, puts, began, ended, past>>
    /\ UNCHANGED nonStreamVars
Disconnect(c) ==
    /\ sub[c] = "streaming"
    /\ left[c] = <<>>
    /\ Calls < MaxCalls
    /\ left' = [left EXCEPT ![c] = <<DOMAIN began>>]
    /\ UNCHANGED <<streams, queue, wire, sub, pub, puts, began, ended, past>>
    /\ UNCHANGED nonStreamVars

\* a worker or a handler calls EventStream.put(data); the publishers are
\* interchangeable, the lowest idle one takes the call
PutBegin(p) ==
    /\ pub[p].pc = "idle"
    /\ \A q \in Publishers : q < p => pub[q].pc # "idle"
    /\ Calls < MaxCalls
    /\ LET e == Cardinality(DOMAIN began) + 1
       IN /\ pub' = [pub EXCEPT ![p] = [pc |-> "put", data |-> e, i |-> 0]]
          /\ began' = [x \in DOMAIN began \cup {e} |->
                          IF x = e
                          THEN [streams |-> Range(streams), ended |-> ended]
                          ELSE began[x]]
    /\ UNCHANGED <<streams, queue, wire, sub, puts, ended, past, left>>
    /\ UNCHANGED nonStreamVars

\* EventStream.put: one round of `for stream in cls._streams`, the list
\* iterator holding an index into the list: stream.put(data)
\* (mutant: the event is put twice)
PutNextTwice(p) ==
    /\ pub[p].pc = "put"
    /\ pub[p].i < Len(streams)
    /\ LET c == streams[pub[p].i + 1]
           d == Event(pub[p].data)
       IN /\ queue' = [queue EXCEPT ![c] = QueuePut(QueuePut(queue[c], d), d)]
          /\ puts' = [puts EXCEPT ![c] = Append(Append(puts[c], d), d)]
    /\ pub' = [pub EXCEPT ![p].i = pub[p].i + 1]
    /\ UNCHANGED <<streams, wire, sub, began, ended, past, left>>
    /\ UNCHANGED nonStreamVars
PutNext(p) ==
    /\ pub[p].pc = "put"
    /\ pub[p].i < Len(streams)
    /\ LET c == streams[pub[p].i + 1]
       IN /\ queue' = [queue EXCEPT ![c] = QueuePut(queue[c], Event(pub[p].data))]
          /\ puts' = [puts EXCEPT ![c] = Append(puts[c], Event(pub[p].data))]
    /\ pub' = [pub EXCEPT ![p].i = pub[p].i + 1]
    /\ UNCHANGED <<streams, wire, sub, began, ended, past, left>>
    /\ UNCHANGED nonStreamVars

\* EventStream.put: the list iterator is exhausted, put returns
PutEnd(p) ==
    /\ pub[p].pc = "put"
    /\ pub[p].i >= Len(streams)
    /\ ended' = ended \cup {pub[p].data}
    /\ pub' = [pub EXCEPT ![p] = [pc |-> "idle", data |-> 0, i |-> 0]]
    /\ UNCHANGED <<streams, queue, wire, sub, puts, began, past, left>>
    /\ UNCHANGED nonStreamVars

\* ------------------------------------------- DrawerResource (poller)

\* DrawerResource._is_open: False without a printer or when the driver
\* raises, else printer.is_drawer_open()
IsOpen(printer, status) ==
    IF printer = "none" THEN FALSE
    ELSE IF printer = "raises" THEN FALSE
    ELSE status

\* the values a call of DrawerResource._is_open can return
IsOpenValues ==
    {IsOpen(printer, status) : printer \in {"none", "raises", "ok"},
                               status \in BOOLEAN}

DrawerInit ==
    /\ drawer_pc = "start"
    /\ is_open = FALSE
    /\ samples = <<>>
    /\ alerts = <<>>

\* check_drawer_loop: is_open = DrawerResource._is_open()
\* (mutant: the loop starts from closed whatever the first sample says)
CheckDrawerStartClosed ==
    /\ drawer_pc = "start"
    /\ \E v \in IsOpenValues :
          /\ is_open' = FALSE
          /\ samples' = <<v>>
    /\ drawer_pc' = "loop"
    /\ UNCHANGED alerts
    /\ UNCHANGED nonDrawerVars
CheckDrawerStart ==
    /\ drawer_pc = "start"
    /\ \E v \in IsOpenValues :
          /\ is_open' = v
          /\ samples' = <<v>>
    /\ drawer_pc' = "loop"
    /\ UNCHANGED alerts
    /\ UNCHANGED nonDrawerVars

\* check_drawer_loop: one round of `while True`.  `and` evaluates its right
\* operand only when the left one is true, so a round calls _is_open once:
\* in the `if` when is_open is False, in the `elif` when it is True.
\* (mutant: the round does not assign is_open)
CheckDrawerLoopStale ==
    /\ drawer_pc = "loop"
    /\ Len(samples) < MaxSamples
    /\ \E v \in IsOpenValues :
          /\ samples' = Append(samples, v)
          /\ IF ~is_open /\ v
             THEN alerts' = Append(alerts, [type |-> "DRAWER_ALERT_OPEN",
                                            after |-> Len(samples')])
             ELSE IF is_open /\ ~v
             THEN alerts' = Append(alerts, [type |-> "DRAWER_ALERT_CLOSE",
                                            after |-> Len(samples')])
             ELSE UNCHANGED alerts
    /\ UNCHANGED <<is_open, drawer_pc>>
    /\ UNCHANGED nonDrawerVars
CheckDrawerLoop ==
    /\ drawer_pc = "loop"
    /\ Len(samples) < MaxSamples
    /\ \E v \in IsOpenValues :
          /\ samples' = Append(samples, v)
          /\ IF ~is_open /\ v
             THEN /\ is_open' = TRUE
                  /\ alerts' = Append(alerts, [type |-> "DRAWER_ALERT_OPEN",
                                                after |-> Len(samples')])
             ELSE IF is_open /\ ~v
             THEN /\ is_open' = FALSE
                  /\ alerts' = Append(alerts, [type |-> "DRAWER_ALERT_CLOSE",
                                                after |-> Len(samples')])
             ELSE UNCHANGED <<is_open, alerts>>
    /\ UNCHANGED drawer_pc
    /\ UNCHANGED nonDrawerVars

DrawerNext ==
    \/ CheckDrawerStart
    \/ CheckDrawerLoop

\* ------------------------------- DataResource._postgres_listen (worker)

\* DataResource.watch_tables
WatchTables == {"sellable", "product", "storable", "product_stock_item",
                "branch_station", "branch", "login_user", "sellable_category",
                "client_category_price", "payment_method", "credit_provider"}

\* the tables the notifications name: one of the watch-list, one that is not
Tables == {"sellable", "sale"}

ListenInit ==
    /\ listen_pc = "select"
    /\ message = FALSE
    /\ socket = <<>>
    /\ polls = <<>>
    /\ nnotify = 0
    /\ arrived = <<>>

\* `while conn.notifies`: notify = conn.notifies.pop(0);
\* message = message or table in DataResource.watch_tables
\* (mutant: message = table in DataResource.watch_tables)
RECURSIVE DrainLast(_, _)
DrainLast(msg, notifies) ==
    IF notifies = <<>> THEN msg
    ELSE DrainLast(Head(notifies) \in WatchTables, Tail(notifies))
RECURSIVE Drain(_, _)
Drain(msg, notifies) ==
    IF notifies = <<>> THEN msg
    ELSE Drain(msg \/ Head(notifies) \in WatchTables, Tail(notifies))

\* the database sends NOTIFY update_te, '<te_id>,<table>'
Notify(table) ==
    /\ nnotify < MaxNotifies
    /\ nnotify' = nnotify + 1
    /\ socket' = Append(socket, table)
    /\ arrived' = Append(arrived, [table |-> table, round |-> Len(polls),
                                  at |-> listen_pc])
    /\ UNCHANGED <<listen_pc, message, polls>>
    /\ UNCHANGED nonListenVars

\* _postgres_listen: select.select([conn], [], [], 5); when the connection is
\* readable conn.poll() and the drain of conn.notifies, else the timeout
ListenSelect ==
    /\ listen_pc = "select"
    /\ Len(polls) < MaxPolls
    /\ message' = Drain(message, socket)
    /\ socket' = <<>>
    /\ polls' = Append(polls, [drained |-> socket, published |-> 0])
    /\ listen_pc' = "check"
    /\ UNCHANGED <<nnotify, arrived>>
    /\ UNCHANGED nonListenVars

\* _postgres_listen: `if message:`; when it is set the argument of the put,
\* DataResource.get_data(store), starts to be computed
ListenCheck ==
    /\ listen_pc = "check"
    /\ listen_pc' = IF message THEN "put" ELSE "select"
    /\ UNCHANGED <<message, socket, polls, nnotify, arrived>>
    /\ UNCHANGED nonListenVars

\* _postgres_listen: get_data returns, EventStream.put({'type':
\* 'SERVER_UPDATE_DATA', ...}); message = False
\* (mutants: message is not reset; the notifications that came in during
\* the computation are thrown away)
ListenPutNoReset ==
    /\ listen_pc = "put"
    /\ polls' = [polls EXCEPT ![Len(polls)].published = @ + 1]
    /\ listen_pc' = "select"
    /\ UNCHANGED <<message, socket, nnotify, arrived>>
    /\ UNCHANGED nonListenVars
ListenPutFlush ==
    /\ listen_pc = "put"
    /\ polls' = [polls EXCEPT ![Len(polls)].published = @ + 1]
    /\ message' = FALSE
    /\ socket' = <<>>
    /\ listen_pc' = "select"
    /\ UNCHANGED <<nnotify, arrived>>
    /\ UNCHANGED nonListenVars
ListenPut ==
    /\ listen_pc = "put"
    /\ polls' = [polls EXCEPT ![Len(polls)].published = @ + 1]
    /\ message' = FALSE
    /\ listen_pc' = "select"
    /\ UNCHANGED <<socket, nnotify, arrived>>
    /\ UNCHANGED nonListenVars

ListenNext ==
    \/ \E table \in Tables : Notify(table)
    \/ ListenSelect
    \/ ListenCheck
    \/ ListenPut

\* ------------------------------------------ tasks.start_rtc (supervisor)

\* the exit codes of the helper: success, an error, and the two start_rtc
\* tests for
ExitCodes == {0, 1, 10, 139}

\* how long a helper runs, in seconds
RunTimes == {0, 7}

\* start_rtc: the branches that set retry = True
\* (mutant: every failure restarts)
RestartsNonZero(code) == code # 0
Restarts(code) == code = 10 \/ code = 139

\* start_rtc: time.sleep(10 * 60) and time.sleep(1)
\* (mutant: the two waits are swapped)
RestartDelaySwapped(code) == IF code = 10 THEN 1 ELSE 10 * 60
RestartDelay(code) == IF code = 10 THEN 10 * 60 ELSE 1

RtcInit ==
    /\ rtc_pc = "loop"
    /\ retry = TRUE
    /\ popen = None
    /\ handler = "SIG_DFL"
    /\ children = <<>>
    /\ rtc_now = 0
    /\ rtc_exit = "no"

\* start_rtc: `while retry`, retry = False, and the fork inside
\* subprocess.Popen(...): the child runs, Popen has not returned yet and the
\* local popen is still bound to what it was
RtcSpawn ==
    /\ rtc_pc = "loop"
    /\ retry
    /\ Len(children) < MaxChildren
    /\ retry' = FALSE
    /\ children' = Append(children, [state |-> "alive", returncode |-> None,
                                     terminated |-> FALSE,
                                     spawned |-> rtc_now, exited |-> 0])
    /\ rtc_pc' = "forked"
    /\ UNCHANGED <<popen, handler, rtc_now, rtc_exit>>
    /\ UNCHANGED nonRtcVars

\* start_rtc: popen = subprocess.Popen(...) returns and is assigned.  The
\* local popen is a closure cell: a _sigterm_handler defined in an earlier
\* round reads the new value from now on.
RtcBind ==
    /\ rtc_pc = "forked"
    /\ popen' = Len(children)
    /\ rtc_pc' = "bound"
    /\ UNCHANGED <<retry, handler, children, rtc_now, rtc_exit>>
    /\ UNCHANGED nonRtcVars

\* start_rtc: signal.signal(signal.SIGTERM, _sigterm_handler)
RtcInstall ==
    /\ rtc_pc = "bound"
    /\ handler' = "_sigterm_handler"
    /\ rtc_pc' = "wait"
    /\ UNCHANGED <<retry, popen, children, rtc_now, rtc_exit>>
    /\ UNCHANGED nonRtcVars

\* the helper child exits by itself
ChildExit(c) ==
    /\ c \in DOMAIN children
    /\ children[c].state = "alive"
    /\ rtc_pc # "exited"
    /\ \E code \in ExitCodes, run \in RunTimes :
          /\ children' = [children EXCEPT ![c] =
                             [@ EXCEPT !.state = "exited", !.returncode = code,
                                       !.exited = rtc_now + run]]
          /\ rtc_now' = rtc_now + run
    /\ UNCHANGED <<rtc_pc, retry, popen, handler, rtc_exit>>
    /\ UNCHANGED nonRtcVars

\* start_rtc: popen.wait() returns, and the if/elif on popen.returncode up to
\* its time.sleep
\* (mutant: the wait gives up on a child that still runs and restarts)
RtcWaitGivesUp ==
    /\ rtc_pc = "wait"
    /\ IF children[popen].state = "alive"
          \/ Restarts(children[popen].returncode)
       THEN /\ rtc_pc' = "sleep"
            /\ UNCHANGED retry
       ELSE /\ rtc_pc' = IF retry THEN "loop" ELSE "returned"
            /\ UNCHANGED retry
    /\ UNCHANGED <<popen, handler, children, rtc_now, rtc_exit>>
    /\ UNCHANGED nonRtcVars
RtcWait ==
    /\ rtc_pc = "wait"
    /\ children[popen].state = "exited"
    /\ IF Restarts(children[popen].returncode)
       THEN /\ rtc_pc' = "sleep"
            /\ UNCHANGED retry
       ELSE \* no branch taken: `while retry` ends the loop
            /\ rtc_pc' = IF retry THEN "loop" ELSE "returned"
            /\ UNCHANGED retry
    /\ UNCHANGED <<popen, handler, children, rtc_now, rtc_exit>>
    /\ UNCHANGED nonRtcVars

\* start_rtc: time.sleep(...) returns; retry = True
RtcSleep ==
    /\ rtc_pc = "sleep"
    /\ rtc_now' = rtc_now + RestartDelay(children[popen].returncode)
    /\ retry' = TRUE
    /\ rtc_pc' = "loop"
    /\ UNCHANGED <<popen, handler, children, rtc_exit>>
    /\ UNCHANGED nonRtcVars

\* SIGTERM is delivered to the supervisor while start_rtc runs.  Under
\* _sigterm_handler: popen.poll(); popen.terminate() if popen.returncode is
\* None; os._exit(0).  Before the first signal.signal the disposition is the
\* interpreter's default: the process ends.
Sigterm ==
    /\ rtc_pc \notin {"returned", "exited"}
    /\ IF handler = "_sigterm_handler"
       THEN /\ children' = IF children[popen].state = "alive"
                           THEN [children EXCEPT ![popen].terminated = TRUE]
                           ELSE children
            /\ rtc_exit' = "_sigterm_handler"
       ELSE /\ UNCHANGED children
            /\ rtc_exit' = "SIG_DFL"
    /\ rtc_pc' = "exited"
    /\ UNCHANGED <<retry, popen, handler, rtc_now>>
    /\ UNCHANGED nonRtcVars

RtcNext ==
    \/ RtcSpawn
    \/ RtcBind
    \/ RtcInstall
    \/ \E c \in 1..MaxChildren : ChildExit(c)
    \/ RtcWait
    \/ RtcSleep
    \/ Sigterm

\* ------------------------------ tasks.start_backup_scheduler (backup)

\* the command lines of the server: the program, options, a command
Words == {"run", "-v"}
Argvs == {<<"stoqserver">> \o rest :
             rest \in {<<>>} \cup [1..1 -> Words] \cup [1..2 -> Words]}

\* how long a backup subprocess runs, in seconds
BackupTimes == {60}

\* backup_task.start(24 * 60 * 60): the interval of the LoopingCall
Interval == 24 * 60 * 60

\* for i, arg in enumerate(args[:]): if arg == 'run': ...; break
\* the value the loop leaves in i: the index of the first 'run', or the last
\* index when there is none (i keeps its value when args is empty)
EnumerateRun(i, args) ==
    IF args = <<>> THEN i
    ELSE IF \E j \in DOMAIN args : args[j] = "run"
    THEN (CHOOSE j \in DOMAIN args :
             args[j] = "run" /\ \A k \in 1..(j - 1) : args[k] # "run") - 1
    ELSE Len(args) - 1

\* time.sleep((60 * 2) ** (i + 1))
Backoff(i) == (60 * 2) ^ (i + 1)

\* if p.returncode == 0: break
\* (mutant: the loop never breaks)
BreaksNever(returncode) == FALSE
Breaks(returncode) == returncode = 0

\* LoopingCall: the next call is at the next multiple of the interval,
\* counted from starttime, after the call has returned
NextCall(start, at) == at + Interval - ((at - start) % Interval)

BackupInit ==
    /\ bk_pc = "start"
    /\ argv = <<>>
    /\ bk_i = 0
    /\ bk_iter = <<>>
    /\ bk_now = 0
    /\ bk_start = 0
    /\ bk_runs = <<>>

\* the server is started with a command line; at the trigger time
\* backup_task.start(24 * 60 * 60) is called: the LoopingCall is due
BackupStart ==
    /\ bk_pc = "start"
    /\ \E a \in Argvs : argv' = a
    /\ bk_start' = bk_now
    /\ bk_pc' = "due"
    /\ UNCHANGED <<bk_i, bk_iter, bk_now, bk_runs>>
    /\ UNCHANGED nonBackupVars

\* the LoopingCall calls _backup_task: for i in xrange(3)
BackupFire ==
    /\ bk_pc = "due"
    /\ Len(bk_runs) < MaxOccur
    /\ bk_runs' = Append(bk_runs, [at |-> bk_now, attempts |-> <<>>])
    /\ bk_iter' = <<0, 1, 2>>
    /\ bk_pc' = "for"
    /\ UNCHANGED <<argv, bk_i, bk_now, bk_start>>
    /\ UNCHANGED nonBackupVars

\* _backup_task: one round of `for i in xrange(3)`: the inner enumerate loop
\* (which assigns the same i), Popen and communicate, then the break or the
\* warning and time.sleep
BackupAttempt ==
    /\ bk_pc = "for"
    /\ bk_iter # <<>>
    /\ \E returncode \in {0, 1}, run \in BackupTimes :
          LET i == EnumerateRun(Head(bk_iter), argv)
              wait == IF Breaks(returncode) THEN 0 ELSE Backoff(i)
          IN /\ bk_i' = i
             /\ bk_runs' = [bk_runs EXCEPT ![Len(bk_runs)].attempts =
                               Append(@, [returncode |-> returncode,
                                          wait |-> wait])]
             /\ bk_now' = bk_now + run + wait
             /\ IF Breaks(returncode)
                THEN /\ bk_pc' = "return"
                     /\ UNCHANGED bk_iter
                ELSE /\ bk_pc' = "for"
                     /\ bk_iter' = Tail(bk_iter)
    /\ UNCHANGED <<argv, bk_start>>
    /\ UNCHANGED nonBackupVars

\* _backup_task: xrange(3) is exhausted, the for loop ends
BackupExhausted ==
    /\ bk_pc = "for"
    /\ bk_iter = <<>>
    /\ bk_pc' = "return"
    /\ UNCHANGED <<argv, bk_i, bk_iter, bk_now, bk_start, bk_runs>>
    /\ UNCHANGED nonBackupVars

\* _backup_task returns to the LoopingCall, which waits for its next call
BackupReturn ==
    /\ bk_pc = "return"
    /\ bk_now' = NextCall(bk_start, bk_now)
    /\ bk_pc' = "due"
    /\ UNCHANGED <<argv, bk_i, bk_iter, bk_start, bk_runs>>
    /\ UNCHANGED nonBackupVars

BackupNext ==
    \/ BackupStart
    \/ BackupFire
    \/ BackupAttempt
    \/ BackupExhausted
    \/ BackupReturn

\* ----------------- tasks.start_backup_scheduler (schedule and timers)

\* a string is a sequence of characters
DigitChars == <<"0", "1", "2", "3", "4", "5", "6", "7", "8", "9">>

\* '%d' % n (and '%s' % n) for n >= 0
RECURSIVE IntToStr(_)
IntToStr(n) ==
    IF n < 10 THEN <<DigitChars[n + 1]>>
    ELSE IntToStr(n \div 10) \o <<DigitChars[(n % 10) + 1]>>

\* int(s) for a string of digits
RECURSIVE StrToInt(_)
StrToInt(str) ==
    IF str = <<>> THEN 0
    ELSE 10 * StrToInt(SubSeq(str, 1, Len(str) - 1))
            + (CHOOSE d \in 0..9 : DigitChars[d + 1] = str[Len(str)])

\* s.strip()
RECURSIVE Strip(_)
Strip(str) ==
    IF str # <<>> /\ Head(str) = " " THEN Strip(Tail(str))
    ELSE IF str # <<>> /\ str[Len(str)] = " "
    THEN Strip(SubSeq(str, 1, Len(str) - 1))
    ELSE str

\* s.split(sep)
RECURSIVE Split(_, _)
Split(str, sep) ==
    IF \A j \in DOMAIN str : str[j] # sep THEN <<str>>
    ELSE LET j == CHOOSE x \in DOMAIN str :
                     str[x] = sep /\ \A y \in 1..(x - 1) : str[y] # sep
         IN <<SubSeq(str, 1, j - 1)>> \o Split(SubSeq(str, j + 1, Len(str)), sep)

\* '%d:%d,%s:%d' % (hour, minute, hour + 12, minute)
FormatSchedule(hour, minute) ==
    IntToStr(hour) \o <<":">> \o IntToStr(minute) \o <<",">>
        \o IntToStr(hour + 12) \o <<":">> \o IntToStr(minute)

\* [map(int, i.strip().split(':')) for i in backup_schedule.split(',')]
ParseSchedule(backup_schedule) ==
    LET parts == Split(backup_schedule, ",")
    IN [i \in DOMAIN parts |->
           LET hm == Split(Strip(parts[i]), ":")
           IN [j \in DOMAIN hm |-> StrToInt(hm[j])]]

\* config.set('Backup', 'schedule', backup_schedule); config.flush()
\* (mutant: the schedule is not written)
ConfigSetNothing(old, backup_schedule) == old
ConfigSet(old, backup_schedule) == <<backup_schedule>>

\* the installations: no schedule configured, or one written by hand
Configs == {<<>>,
            <<<<"0", ":", "0">>>>,
            <<<<"2", "3", ":", "5", "9", ",", " ", "8", ":", "3", "0">>>>}

\* datetime.datetime.now(): the second of the day and the microsecond
Nows == [sec : {0, 9000, 86399}, usec : {0, 500000}]

\* a datetime is before another
Before(a, b) == a.sec < b.sec \/ (a.sec = b.sec /\ a.usec < b.usec)

\* now.replace(hour=..., minute=..., second=0, microsecond=0), a day later
\* when that is before now
BackupDate(hm, at) ==
    LET today == [sec |-> hm[1] * 3600 + hm[2] * 60, usec |-> 0]
    IN IF Before(today, at) THEN [today EXCEPT !.sec = @ + 24 * 3600] ELSE today

\* (backup_date - now).seconds: the seconds field of the timedelta, which
\* leaves the microseconds out
DeltaSeconds(backup_date, at) ==
    IF at.usec > 0 THEN backup_date.sec - at.sec - 1
    ELSE backup_date.sec - at.sec

\* getattr(task, 'running', False) in the shutdown trigger: `task` is the
\* module twisted.internet.task, which has no attribute running
TaskRunning == "running" \in {"LoopingCall", "deferLater", "Clock", "react",
                              "cooperate", "coiterate", "Cooperator"}

SchedInit ==
    /\ sch_pc = "install"
    /\ config = <<>>
    /\ backup_hours = <<>>
    /\ timers = <<>>
    /\ sch_log = <<>>
    /\ sch_now = <<>>

\* the server is installed with or without a Backup/schedule
SchedInstall ==
    /\ sch_pc = "install"
    /\ \E c \in Configs : config' = c
    /\ sch_pc' = "boot"
    /\ UNCHANGED <<backup_hours, timers, sch_log, sch_now>>
    /\ UNCHANGED nonSchedVars

\* start_backup_scheduler up to backup_hours: config.get, the random choice
\* and config.set / config.flush when it is None, and the parse
SchedCompute ==
    /\ sch_pc = "boot"
    /\ Len(sch_log) < MaxStarts
    /\ IF config = <<>>
       THEN \E hour \in {2, 3, 4, 9, 10}, minute \in 0..59 :
               LET backup_schedule == FormatSchedule(hour, minute)
               IN /\ config' = ConfigSet(config, backup_schedule)
                  /\ backup_hours' = ParseSchedule(backup_schedule)
                  /\ sch_log' = Append(sch_log,
                                    [chosen |-> <<hour, minute>>,
                                     backup_hours |-> backup_hours'])
       ELSE /\ backup_hours' = ParseSchedule(config[1])
            /\ sch_log' = Append(sch_log, [chosen |-> <<>>,
                                           backup_hours |-> backup_hours'])
            /\ UNCHANGED config
    /\ timers' = <<>>
    /\ sch_now' = <<>>
    /\ sch_pc' = "for"
    /\ UNCHANGED nonSchedVars

\* start_backup_scheduler: one round of `for backup_hour in backup_hours`:
\* the delay, the LoopingCall, callLater(delta.seconds, backup_task.start,
\* 24 * 60 * 60) and the shutdown trigger.  The reactor is taken to run at
\* once, so the delay counts from now.
SchedTimer ==
    /\ sch_pc = "for"
    /\ Len(timers) < Len(backup_hours)
    /\ \E at \in Nows :
          LET backup_hour == backup_hours[Len(timers) + 1]
              delay == DeltaSeconds(BackupDate(backup_hour, at), at)
          IN /\ (sch_now # <<>> => ~Before(at, sch_now[Len(sch_now)]))
             /\ sch_now' = Append(sch_now, at)
             /\ timers' = Append(timers,
                                 [state |-> "pending", delay |-> delay,
                                  due |-> [at EXCEPT !.sec = @ + delay],
                                  interval |-> 0])
    /\ UNCHANGED <<sch_pc, config, backup_hours, sch_log>>
    /\ UNCHANGED nonSchedVars

\* start_backup_scheduler returns: the reactor runs
SchedRun ==
    /\ sch_pc = "for"
    /\ Len(timers) = Len(backup_hours)
    /\ sch_pc' = "running"
    /\ UNCHANGED <<config, backup_hours, timers, sch_log, sch_now>>
    /\ UNCHANGED nonSchedVars

\* the delayed call fires: backup_task.start(24 * 60 * 60) sets running and
\* the interval; the LoopingCall is due again an interval later
TimerStart(k) ==
    /\ sch_pc = "running"
    /\ k \in DOMAIN timers
    /\ timers[k].state = "pending"
    /\ timers' = [timers EXCEPT ![k] =
                     [@ EXCEPT !.state = "running",
                               !.interval = 24 * 60 * 60,
                               !.due = [@ EXCEPT !.sec = @ + 24 * 60 * 60]]]
    /\ UNCHANGED <<sch_pc, config, backup_hours, sch_log, sch_now>>
    /\ UNCHANGED nonSchedVars

\* reactor.stop(): the 'before' 'shutdown' triggers run, one lambda per
\* trigger time: getattr(task, 'running', False) and task.stop()
Shutdown ==
    /\ sch_pc = "running"
    /\ timers' = [k \in DOMAIN timers |->
                     IF TaskRunning THEN [timers[k] EXCEPT !.state = "stopped"]
                     ELSE timers[k]]
    /\ sch_pc' = "shutdown"
    /\ UNCHANGED <<config, backup_hours, sch_log, sch_now>>
    /\ UNCHANGED nonSchedVars

\* the server is started again: the configuration file is what is left
Restart ==
    /\ sch_pc = "shutdown"
    /\ Len(sch_log) < MaxStarts
    /\ sch_pc' = "boot"
    /\ timers' = <<>>
    /\ UNCHANGED <<config, backup_hours, sch_log, sch_now>>
    /\ UNCHANGED nonSchedVars

SchedNext ==
    \/ SchedInstall
    \/ SchedCompute
    \/ SchedTimer
    \/ SchedRun
    \/ \E k \in 1..2 : TimerStart(k)
    \/ Shutdown
    \/ Restart

\* --------------- tasks.start_backup_scheduler (the reactor's thread)

\* the trigger times of the schedule
Triggers == {1, 2}

\* how long after the first trigger time the second one is, in seconds:
\* the same time, ten minutes, and the 12 hours of the default schedule
Offsets == {0, 10 * 60, 12 * 60 * 60}

\* the delayed calls that are due first
Earliest == {k \in Triggers : \A j \in Triggers : rx_calls[k].due <= rx_calls[j].due}

ReactorInit ==
    /\ rx_pc = "boot"
    /\ rx_now = 0
    /\ rx_argv = <<>>
    /\ rx_calls = [k \in Triggers |-> [due |-> 0, starttime |-> 0,
                                        running |-> FALSE]]
    /\ rx_task = [k |-> 0, iter |-> <<>>]
    /\ jobs = <<>>
    /\ procs = <<>>

\* start_backup_scheduler: for each trigger time a LoopingCall and
\* callLater(delta.seconds, backup_task.start, 24 * 60 * 60); then the
\* reactor runs
ReactorBoot ==
    /\ rx_pc = "boot"
    /\ \E a \in Argvs : rx_argv' = a
    /\ \E offset \in Offsets :
          rx_calls' = [k \in Triggers |->
                         [due |-> IF k = 1 THEN 0 ELSE offset,
                          starttime |-> 0, running |-> FALSE]]
    /\ rx_pc' = "idle"
    /\ UNCHANGED <<rx_now, rx_task, jobs, procs>>
    /\ UNCHANGED nonReactorVars

\* the reactor, which runs one call at a time on its thread, runs the call
\* that is due first, no earlier than its time: backup_task.start(...) the
\* first time, which notes the start time, and the LoopingCall after that.
\* Either calls _backup_task: for i in xrange(3)
\* (mutant: the call is run while _backup_task is still running, as it would
\* be on a thread of its own)
ReactorCallThreaded(k) ==
    /\ rx_pc \notin {"boot"}
    /\ k \in Earliest
    /\ rx_task.k # k
    /\ Len(jobs) < MaxJobs
    /\ LET at == IF rx_calls[k].due > rx_now THEN rx_calls[k].due ELSE rx_now
       IN /\ rx_now' = at
          /\ rx_calls' = [rx_calls EXCEPT ![k] =
                             [due |-> at, running |-> TRUE,
                              starttime |-> IF rx_calls[k].running
                                            THEN rx_calls[k].starttime ELSE at]]
          /\ jobs' = Append(jobs, [k |-> k, due |-> rx_calls[k].due,
                                   begin |-> at, end |-> None, over |-> FALSE])
    /\ rx_task' = [k |-> k, iter |-> <<0, 1, 2>>]
    /\ rx_pc' = "for"
    /\ UNCHANGED <<rx_argv, procs>>
    /\ UNCHANGED nonReactorVars
ReactorCall(k) ==
    /\ rx_pc = "idle"
    /\ k \in Earliest
    /\ Len(jobs) < MaxJobs
    /\ LET at == IF rx_calls[k].due > rx_now THEN rx_calls[k].due ELSE rx_now
       IN /\ rx_now' = at
          /\ rx_calls' = [rx_calls EXCEPT ![k] =
                             [due |-> at, running |-> TRUE,
                              starttime |-> IF rx_calls[k].running
                                            THEN rx_calls[k].starttime ELSE at]]
          /\ jobs' = Append(jobs, [k |-> k, due |-> rx_calls[k].due,
                                   begin |-> at, end |-> None, over |-> FALSE])
    /\ rx_task' = [k |-> k, iter |-> <<0, 1, 2>>]
    /\ rx_pc' = "for"
    /\ UNCHANGED <<rx_argv, procs>>
    /\ UNCHANGED nonReactorVars

\* _backup_task: a round of `for i in xrange(3)` up to
\* p = subprocess.Popen(args): the subprocess runs
ReactorPopen ==
    /\ rx_pc = "for"
    /\ rx_task.iter # <<>>
    /\ procs' = Append(procs, [job |-> Len(jobs), begin |-> rx_now,
                               end |-> None, alive |-> TRUE])
    /\ rx_pc' = "communicate"
    /\ UNCHANGED <<rx_now, rx_argv, rx_calls, rx_task, jobs>>
    /\ UNCHANGED nonReactorVars

\* _backup_task: p.communicate() returns when the subprocess has exited;
\* then the break, or the warning before the sleep
ReactorCommunicate ==
    /\ rx_pc = "communicate"
    /\ \E returncode \in {0, 1}, run \in BackupTimes :
          /\ rx_now' = rx_now + run
          /\ procs' = [procs EXCEPT ![Len(procs)] =
                          [@ EXCEPT !.end = rx_now', !.alive = FALSE]]
          /\ rx_pc' = IF Breaks(returncode) THEN "return" ELSE "sleep"
    /\ UNCHANGED <<rx_argv, rx_calls, rx_task, jobs>>
    /\ UNCHANGED nonReactorVars

\* _backup_task: time.sleep((60 * 2) ** (i + 1)) returns, with the i the
\* inner enumerate loop left; the for loop goes on
ReactorSleep ==
    /\ rx_pc = "sleep"
    /\ rx_now' = rx_now + Backoff(EnumerateRun(Head(rx_task.iter), rx_argv))
    /\ rx_task' = [rx_task EXCEPT !.iter = Tail(@)]
    /\ rx_pc' = IF Tail(rx_task.iter) = <<>> THEN "return" ELSE "for"
    /\ UNCHANGED <<rx_argv, rx_calls, jobs, procs>>
    /\ UNCHANGED nonReactorVars

\* _backup_task returns to its LoopingCall, which sets its next call; the
\* reactor's thread is free for the next call that is due
ReactorReturn ==
    /\ rx_pc = "return"
    /\ LET k == rx_task.k
       IN rx_calls' = [rx_calls EXCEPT ![k].due =
                          NextCall(rx_calls[k].starttime, rx_now)]
    /\ jobs' = [jobs EXCEPT ![Len(jobs)] =
                   [@ EXCEPT !.end = rx_now, !.over = TRUE]]
    /\ rx_task' = [k |-> 0, iter |-> <<>>]
    /\ rx_pc' = "idle"
    /\ UNCHANGED <<rx_now, rx_argv, procs>>
    /\ UNCHANGED nonReactorVars

ReactorNext ==
    \/ ReactorBoot
    \/ \E k \in Triggers : ReactorCall(k)
    \/ ReactorPopen
    \/ ReactorCommunicate
    \/ ReactorSleep
    \/ ReactorReturn

\* ------------------------------------ worker, run_flaskserver (threads)

\* the functions decorated with @worker, in the order the module defines
\* them
Decorated == <<"_postgres_listen", "check_drawer_loop">>

\* the event types a worker function puts
EventTypes(function) ==
    IF function = "_postgres_listen" THEN {"SERVER_UPDATE_DATA"}
    ELSE {"DRAWER_ALERT_OPEN", "DRAWER_ALERT_CLOSE"}

\* threadit(function): a new thread that runs function
\* (mutant: the function is started on two threads)
ThreaditTwice(ths, function) ==
    ths \o <<[function |-> function, state |-> "running", seen |-> <<>>],
             [function |-> function, state |-> "running", seen |-> <<>>]>>
Threadit(ths, function) ==
    Append(ths, [function |-> function, state |-> "running", seen |-> <<>>])

\* an unhandled error ends the thread that raised it
Crash(ths, k, snapshot) ==
    [ths EXCEPT ![k].state = "dead", ![k].seen = snapshot]

WorkerInit ==
    /\ WORKERS = <<>>
    /\ work_pc = "import"
    /\ threads = <<>>
    /\ published = [f \in Range(Decorated) |-> <<>>]
    /\ served = 0

\* the module is imported: worker(f) does WORKERS.append(f)
Register ==
    /\ work_pc = "import"
    /\ Len(WORKERS) < Len(Decorated)
    /\ WORKERS' = Append(WORKERS, Decorated[Len(WORKERS) + 1])
    /\ UNCHANGED <<work_pc, threads, published, served>>
    /\ UNCHANGED nonWorkerVars

\* run_flaskserver is called
RunFlaskserver ==
    /\ work_pc = "import"
    /\ Len(WORKERS) = Len(Decorated)
    /\ work_pc' = "for"
    /\ UNCHANGED <<WORKERS, threads, published, served>>
    /\ UNCHANGED nonWorkerVars

\* run_flaskserver: one round of `for function in WORKERS`
StartWorker ==
    /\ work_pc = "for"
    /\ Len(threads) < Len(WORKERS)
    /\ threads' = Threadit(threads, WORKERS[Len(threads) + 1])
    /\ UNCHANGED <<WORKERS, work_pc, published, served>>
    /\ UNCHANGED nonWorkerVars

\* run_flaskserver: the loop is over, app.run(...) serves requests
AppRun ==
    /\ work_pc = "for"
    /\ Len(threads) >= Len(WORKERS)
    /\ work_pc' = "serving"
    /\ UNCHANGED <<WORKERS, threads, published, served>>
    /\ UNCHANGED nonWorkerVars

\* a worker thread puts an event of one of its types
\* (mutant: the function goes on after its thread has ended)
WorkerPutAnyway(k) ==
    /\ k \in DOMAIN threads
    /\ Len(published[threads[k].function]) < MaxPuts
    /\ \E type \in EventTypes(threads[k].function) :
          published' = [published EXCEPT ![threads[k].function] = Append(@, type)]
    /\ UNCHANGED <<WORKERS, work_pc, threads, served>>
    /\ UNCHANGED nonWorkerVars
WorkerPut(k) ==
    /\ k \in DOMAIN threads
    /\ threads[k].state = "running"
    /\ Len(published[threads[k].function]) < MaxPuts
    /\ \E type \in EventTypes(threads[k].function) :
          published' = [published EXCEPT ![threads[k].function] = Append(@, type)]
    /\ UNCHANGED <<WORKERS, work_pc, threads, served>>
    /\ UNCHANGED nonWorkerVars

\* a worker function raises an error nothing handles (a payload that does
\* not split in two, a get_data that raises, ...)
WorkerCrash(k) ==
    /\ k \in DOMAIN threads
    /\ threads[k].state = "running"
    /\ threads' = Crash(threads, k, [published |-> published, served |-> served])
    /\ UNCHANGED <<WORKERS, work_pc, published, served>>
    /\ UNCHANGED nonWorkerVars

\* a request is served by app.run
Serve ==
    /\ work_pc = "serving"
    /\ served < MaxServed
    /\ served' = served + 1
    /\ UNCHANGED <<WORKERS, work_pc, threads, published>>
    /\ UNCHANGED nonWorkerVars

WorkerNext ==
    \/ Register
    \/ RunFlaskserver
    \/ StartWorker
    \/ AppRun
    \/ \E k \in 1..(Len(Decorated) + 1) : WorkerPut(k)
    \/ \E k \in 1..(Len(Decorated) + 1) : WorkerCrash(k)
    \/ Serve

\* ------------------------------------------- tasks.restore_database

\* the Database section of the configuration: a key that is not set
\* reads as None, written "" here
DbConfigs == [dbusername : {"", "stoq"}, address : {"", "db"},
              port : {"", "5432"}, dbname : {"stoq"}]

\* _get_pg_args(config)
GetPgArgs(cfg) ==
    (IF cfg.dbusername # "" THEN <<"-U", cfg.dbusername>> ELSE <<>>)
        \o (IF cfg.address # "" THEN <<"-h", cfg.address>> ELSE <<>>)
        \o (IF cfg.port # "" THEN <<"-p", cfg.port>> ELSE <<>>)

\* the command line of each step after the archive restore
Command(step, cfg) ==
    IF step = "dropdb" THEN <<"dropdb">> \o GetPgArgs(cfg) \o <<cfg.dbname>>
    ELSE IF step = "createdb"
    THEN <<"createdb">> \o GetPgArgs(cfg) \o <<cfg.dbname>>
    ELSE <<"psql", "-d", cfg.dbname>> \o GetPgArgs(cfg)
             \o <<"-f", "tmp_path/stoq/stoq.dump">>

\* the step after a step of the try block
Following(step) ==
    IF step = "restore" THEN "dropdb"
    ELSE IF step = "dropdb" THEN "createdb"
    ELSE IF step = "createdb" THEN "psql"
    ELSE "finally"

\* backup.restore(...) raises when its tool exits non-zero
RestoreRaises(returncode) == returncode # 0

\* subprocess.check_call raises CalledProcessError on a non-zero exit
\* (mutant: subprocess.call, which returns the code)
CallNoCheck(returncode) == FALSE
CheckCall(returncode) == returncode # 0

RestoreInit ==
    /\ rs_pc = "idle"
    /\ rs_config = [dbusername |-> "", address |-> "", port |-> "",
                    dbname |-> "stoq"]
    /\ rs_log = <<>>
    /\ default_store = "open"
    /\ tmp_path = "none"
    /\ rs_error = "none"

\* restore_database(user_hash, time): assert user_hash;
\* tmp_path = tempfile.mkdtemp()
RestoreCall ==
    /\ rs_pc = "idle"
    /\ \E cfg \in DbConfigs, user_hash \in {"", "hash"} :
          /\ rs_config' = cfg
          /\ IF user_hash = ""
             THEN /\ rs_error' = "AssertionError"
                  /\ rs_pc' = "raised"
                  /\ UNCHANGED tmp_path
             ELSE /\ tmp_path' = "there"
                  /\ rs_pc' = "restore"
                  /\ UNCHANGED rs_error
    /\ UNCHANGED <<rs_log, default_store>>
    /\ UNCHANGED nonRestoreVars

\* restore_database: set_default_store(None), get_config, and
\* backup.restore(restore_path, user_hash, time=time)
RestoreArchive ==
    /\ rs_pc = "restore"
    /\ default_store' = "closed"
    /\ \E returncode \in {0, 1} :
          /\ rs_log' = Append(rs_log, [step |-> "restore", args |-> <<>>,
                                       returncode |-> returncode])
          /\ IF RestoreRaises(returncode)
             THEN /\ rs_error' = "Exception"
                  /\ rs_pc' = "finally"
             ELSE /\ rs_pc' = Following("restore")
                  /\ UNCHANGED rs_error
    /\ UNCHANGED <<rs_config, tmp_path>>
    /\ UNCHANGED nonRestoreVars

\* restore_database: subprocess.check_call of dropdb, createdb, psql
RestoreStep(step) ==
    /\ rs_pc = step
    /\ \E returncode \in {0, 1} :
          /\ rs_log' = Append(rs_log, [step |-> step,
                                       args |-> Command(step, rs_config),
                                       returncode |-> returncode])
          /\ IF CheckCall(returncode)
             THEN /\ rs_error' = "CalledProcessError"
                  /\ rs_pc' = "finally"
             ELSE /\ rs_pc' = Following(step)
                  /\ UNCHANGED rs_error
    /\ UNCHANGED <<rs_config, default_store, tmp_path>>
    /\ UNCHANGED nonRestoreVars

\* restore_database: finally: get_default_store();
\* shutil.rmtree(tmp_path, ignore_errors=True); the exception, if any, goes
\* on to the caller
RestoreFinally ==
    /\ rs_pc = "finally"
    /\ default_store' = "open"
    /\ tmp_path' = "gone"
    /\ rs_pc' = IF rs_error = "none" THEN "returned" ELSE "raised"
    /\ UNCHANGED <<rs_config, rs_log, rs_error>>
    /\ UNCHANGED nonRestoreVars

RestoreNext ==
    \/ RestoreCall
    \/ RestoreArchive
    \/ \E step \in {"dropdb", "createdb", "psql"} : RestoreStep(step)
    \/ RestoreFinally

StreamNext ==
    \/ \E c \in Clients : GetAppend(c)
    \/ \E c \in Clients : GetPut(c)
    \/ \E c \in Clients : Loop(c)
    \/ \E c \in Clients : Disconnect(c)
    \/ \E p \in Publishers : PutBegin(p)
    \/ \E p \in Publishers : PutNext(p)
    \/ \E p \in Publishers : PutEnd(p)

SessionNext ==
    \/ Tick
    \/ \E t \in Threads : LoginStart(t)
    \/ \E t \in Threads : ProtectedStart(t)
    \/ \E t \in Threads : Load(t)
    \/ \E t \in Threads : Create(t)
    \/ \E t \in Threads : Validate(t)
    \/ \E t \in Threads : SaveOpen(t)
    \/ \E t \in Threads : LoginSaveDump(t)
    \/ \E t \in Threads : SaveDump(t)
    \/ \E t \in Threads : Call(t)
    \/ \E t \in Threads : Return(t)

Init == SessionInit /\ StreamInit /\ DrawerInit /\ ListenInit /\ RtcInit
            /\ BackupInit /\ SchedInit /\ WorkerInit /\ RestoreInit
            /\ ReactorInit

\* the session store and the auth gate
SessionSpec == Init /\ [][SessionNext]_vars

\* the event stream
StreamSpec == Init /\ [][StreamNext]_vars

\* the drawer poller
DrawerSpec == Init /\ [][DrawerNext]_vars

\* the change-notification worker
ListenSpec == Init /\ [][ListenNext]_vars

\* the notification worker's thread keeps being scheduled: select returns
\* after 5 seconds at the latest, and every statement of the loop is reached
ListenFairSpec ==
    /\ Init /\ [][ListenNext]_vars
    /\ WF_vars(ListenSelect) /\ WF_vars(ListenCheck) /\ WF_vars(ListenPut)

\* the webRTC supervisor
RtcSpec == Init /\ [][RtcNext]_vars

\* the backup schedule of one trigger time
BackupSpec == Init /\ [][BackupNext]_vars

\* the backup scheduler: the trigger times and their timers
SchedSpec == Init /\ [][SchedNext]_vars

\* the worker threads of the server
WorkerSpec == Init /\ [][WorkerNext]_vars

\* a call of restore_database
RestoreSpec == Init /\ [][RestoreNext]_vars

\* the reactor's thread and the backup jobs it runs
ReactorSpec == Init /\ [][ReactorNext]_vars

TypeOK ==
    /\ now \in 0..MaxTime
    /\ file.state \in {"absent", "truncated", "ok"}
    /\ g_session \in Objs \cup {None}
    /\ \A t \in Threads : s[t] \in Objs \cup {None}
    /\ nreq \in 0..MaxReq
    /\ \A c \in Clients : sub[c] \in {"idle", "appended", "streaming"}

\* ------------------------------------------------------------- claims

\* a handler of kind passes from the block at pc `from` to another block
Leaves(t, kind, from) == pc[t] = from /\ req[t].kind = kind /\ pc'[t] # from

\* C1: once every handler has returned, each session created by a completed
\* login and not older than the expiry time is in the persisted mapping:
\* the store accesses behave as atomic critical sections, no update is lost.
C1_CompletedLoginPersisted ==
    (\A t \in Threads : pc[t] = "idle") =>
        \A k \in DOMAIN owner :
            now - owner[k].date <= ExpireTime =>
                file.state = "ok" /\ k \in DOMAIN file.data

\* C2: the validation of the auth gate succeeds iff the session id is a key
\* of the session store the access starts from (before its GC pass) and
\* now - timestamp <= expiry; otherwise the request is aborted.
C2_ValidationIff ==
    [][\A t \in Threads :
          Leaves(t, "protected", "enter") =>
              LET store == heap[g_session]
                  k == req[t].header
              IN /\ pc'[t] \in {"save_open", "done"}
                 /\ pc'[t] = "save_open" <=>
                        (k \in DOMAIN store /\ now - store[k].date <= ExpireTime)
      ]_vars

\* C2 witness: a request was rejected for a session that is in the store,
\* not garbage-collected, and older than the expiry time
C2_Witness ==
    \E t \in Threads :
        /\ pc[t] = "done" /\ req[t].kind = "protected"
        /\ hist[t].found /\ hist[t].chk_at - hist[t].chk_date > ExpireTime

\* C3: when the store access of a successful validation ends, the persisted
\* mapping holds the validated session with the time of the validation as
\* its timestamp.
C3_RefreshPersisted ==
    [][\A t \in Threads :
          (Leaves(t, "protected", "save_dump") /\ pc'[t] = "call") =>
              LET k == req[t].header
              IN /\ file'.state = "ok"
                 /\ k \in DOMAIN file'.data
                 /\ file'.data[k].date = hist[t].chk_at
      ]_vars

C5_LoginPersistsEntry ==
    [][\A t \in Threads :
          /\ Leaves(t, "login", "enter") =>
                LET d == heap[g_session]
                    e == heap'[g_session]
                    k == session_id'[t]
                IN /\ k \notin DOMAIN d
                   /\ DOMAIN e \ DOMAIN d = {k}
                   /\ e[k] = [date |-> now, user_id |-> req[t].user]
                   /\ \A j \in DOMAIN d :
                         now - d[j].date <= ExpireTime =>
                             j \in DOMAIN e /\ e[j] = d[j]
          /\ Leaves(t, "login", "save_dump") =>
                LET k == session_id[t]
                IN /\ file'.state = "ok"
                   /\ k \in DOMAIN file'.data
                   /\ file'.data[k] = [date |-> owner[k].date,
                                       user_id |-> req[t].user]
      ]_vars

\* C6: while the wrapped operation runs, the request carries a session id
\* that the gate found in the store with now - timestamp <= expiry, and the
\* request-scoped principal is the user that session was created for.
C6_InvokedOnlyValidated ==
    \A t \in Threads :
        pc[t] = "call" =>
            /\ req[t].header # None
            /\ hist[t].found
            /\ hist[t].chk_at - hist[t].chk_date <= ExpireTime
            /\ req[t].header \in DOMAIN owner
            /\ flask_session[t] = owner[req[t].header].user_id

\* C6 witness: the wrapped operation runs
C6_Witness == \E t \in Threads : pc[t] = "call" /\ hist[t].found

\* C7: a request to a protected resource that is rejected (its token is
\* missing, unknown or expired) is answered 401, whatever the resource's
\* method_decorators.
C7_RejectedIs401 ==
    \A t \in Threads :
        (pc[t] = "done" /\ req[t].kind = "protected") =>
            response[t] = 401

\* the events in a queue's history
Published(c) == SelectSeq(puts[c], LAMBDA x : x.type = "dict")

\* how often the item occurs in the sequence
Count(seq, item) == Cardinality({i \in DOMAIN seq : seq[i] = item})

\* C8: the events put in a subscriber's queue occur once each, none of them
\* is an event whose publish had returned when the queue was registered, and
\* every event whose publish started after that and has returned is there.
C8_EventsAfterSubscribe ==
    \A c \in Clients :
        /\ \A i \in DOMAIN Published(c) :
              /\ Count(Published(c), Published(c)[i]) = 1
              /\ Published(c)[i].id \notin past[c]
        /\ \A e \in ended :
              c \in began[e].streams => Count(Published(c), Event(e)) = 1

\* C8 witness: A subscribes, e is published, B subscribes, f is published:
\* A has [e, f] and B has [f] after their synthetic events
C8_Witness ==
    /\ ended = {1, 2}
    /\ began[1].streams = {1} /\ 1 \in past[2]
    /\ puts[1] = <<Synthetic, Event(1), Event(2)>>
    /\ puts[2] = <<Synthetic, Event(2)>>

\* C9: in every queue an event whose publish had returned before another's
\* started comes before it, and the frames on the wire are the frames of the
\* items put in the queue, one per item, in the order they were put.
C9_PublishOrder ==
    \A c \in Clients :
        /\ \A i, j \in DOMAIN Published(c) :
              Published(c)[i].id \in began[Published(c)[j].id].ended => i < j
        /\ Len(wire[c]) <= Len(puts[c])
        /\ wire[c] = [i \in 1..Len(wire[c]) |-> Frame(puts[c][i])]
        /\ queue[c] = SubSeq(puts[c], Len(wire[c]) + 1, Len(puts[c]))

\* C9 witness: a stream has emitted the frames of two events published one
\* after the other
C9_Witness ==
    \E c \in Clients :
        /\ Len(wire[c]) = 3
        /\ \E e, f \in ended :
              /\ e \in began[f].ended
              /\ wire[c][2] = Frame(Event(e))
              /\ wire[c][3] = Frame(Event(f))

\* C10: every queue that was registered is in the subscriber list, once, and
\* an event is put exactly once in every queue that was registered when its
\* publish started (a queue whose subscribe had returned is one), and never
\* more than once in any queue.
C10_NoLostSubscriber ==
    /\ \A c \in Clients :
          sub[c] # "idle" => Count(streams, c) = 1
    /\ \A e \in DOMAIN began, c \in Clients :
          /\ Count(puts[c], Event(e)) <= 1
          /\ (e \in ended /\ c \in began[e].streams) =>
                Count(puts[c], Event(e)) = 1

\* C10 witness: two publishers have published concurrently to two queues
C10_Witness ==
    /\ Cardinality(ended) >= 2
    /\ \E e, f \in ended :
          /\ e # f
          /\ f \notin began[e].ended /\ e \notin began[f].ended
          /\ Cardinality(began[e].streams) >= 2

\* C11: the synthetic empty event is the first item ever put in a
\* subscriber's queue: no published event comes before it.
C11_SyntheticFirst ==
    \A c \in Clients :
        puts[c] # <<>> => puts[c][1] = Synthetic

\* the positions of the samples that differ from the sample before
Edges == {i \in 2..Len(samples) : samples[i] # samples[i - 1]}

\* C12: the drawer events published are, in order, one per sample that
\* differs from the sample before it: DRAWER_ALERT_OPEN after a sample that
\* turned open, DRAWER_ALERT_CLOSE after one that turned closed.
C12_EventPerEdge ==
    /\ Len(alerts) = Cardinality(Edges)
    /\ \A j \in DOMAIN alerts :
          /\ alerts[j].after \in Edges
          /\ alerts[j].type = IF samples[alerts[j].after]
                              THEN "DRAWER_ALERT_OPEN"
                              ELSE "DRAWER_ALERT_CLOSE"
          /\ \A i \in DOMAIN alerts : i < j => alerts[i].after < alerts[j].after

\* C12 witness: closed, closed, open, open, closed gives OPEN after the 3rd
\* sample and CLOSE after the 5th
C12_Witness ==
    /\ samples = <<FALSE, FALSE, TRUE, TRUE, FALSE>>
    /\ alerts = <<[type |-> "DRAWER_ALERT_OPEN", after |-> 3],
                  [type |-> "DRAWER_ALERT_CLOSE", after |-> 5]>>

\* the rounds of the notification worker that are over
Rounds == IF listen_pc = "select" THEN 1..Len(polls) ELSE 1..(Len(polls) - 1)

\* the notifications of a round that name a watched table
Watched(i) == {j \in DOMAIN polls[i].drained : polls[i].drained[j] \in WatchTables}

\* C13: a round that drained one or more notifications naming watched
\* tables, however many and however mixed with others, has published
\* SERVER_UPDATE_DATA exactly once, and the dirty flag is reset after it.
C13_OnePublishPerRound ==
    /\ \A i \in Rounds : Watched(i) # {} => polls[i].published = 1
    /\ listen_pc = "select" => ~message

\* C13 witness: a round drained two watched notifications and an unwatched
\* one and is over
C13_Witness ==
    \E i \in Rounds :
        /\ Cardinality(Watched(i)) >= 2
        /\ Cardinality(Watched(i)) < Len(polls[i].drained)

\* C14: a round that timed out with no notification, or drained only
\* notifications naming unwatched tables, has published nothing.
C14_NoPublishUnwatched ==
    \A i \in DOMAIN polls : Watched(i) = {} => polls[i].published = 0

\* C14 witness: after a round that published, a round that timed out and a
\* round that drained only an unwatched notification are over
C14_Witness ==
    \E i, j, k \in Rounds :
        /\ i < j /\ i < k
        /\ polls[i].published = 1
        /\ polls[j].drained = <<>>
        /\ polls[k].drained # <<>> /\ Watched(k) = {}

\* C15: a child that follows a child that exited with code 10 was spawned
\* 10 minutes or more after that exit, one that follows an exit with code
\* 139 one second or more after it; and once the supervisor has slept after
\* such an exit it goes on to spawn (retry is set).
C15_RestartAfterDelay ==
    /\ \A k \in 2..Len(children) :
          LET prev == children[k - 1]
          IN /\ prev.returncode = 10 => children[k].spawned - prev.exited >= 600
             /\ prev.returncode = 139 => children[k].spawned - prev.exited >= 1
    /\ \A k \in DOMAIN children :
          (k = Len(children) /\ rtc_pc = "loop"
              /\ children[k].returncode \in {10, 139}) =>
                 /\ retry
                 /\ rtc_now - children[k].exited >=
                        (IF children[k].returncode = 10 THEN 600 ELSE 1)

\* C15 witness: a child was spawned after an exit with code 10 and another
\* after an exit with code 139
C15_Witness ==
    /\ Len(children) = 3
    /\ children[1].returncode = 10 /\ children[2].returncode = 139
    /\ children[2].spawned = children[1].exited + 600
    /\ children[3].spawned = children[2].exited + 1

\* C16: a child that exited with a code other than 10 and 139 is the last
\* child: none is spawned after it, the supervisor does not retry, and once
\* it has seen the exit the loop is over.
C16_OtherCodeStops ==
    \A k \in DOMAIN children :
        (children[k].state = "exited" /\ children[k].returncode \notin {10, 139}) =>
            /\ k = Len(children)
            /\ ~retry
            /\ rtc_pc \in {"forked", "bound", "wait", "returned", "exited"}

\* C16 witness: after two restarts a child exited with code 0 and the loop
\* is over
C16_Witness ==
    /\ Len(children) = 3
    /\ children[3].state = "exited" /\ children[3].returncode = 0
    /\ rtc_pc = "returned"

\* C17: when the supervisor has ended in its termination handler, every
\* child that is alive has been sent termination.
C17_SignalForwarded ==
    rtc_exit = "_sigterm_handler" =>
        \A k \in DOMAIN children :
            children[k].state = "alive" => children[k].terminated

\* the occurrences of the backup job that have returned
Returned == IF bk_pc \in {"due", "return"} THEN DOMAIN bk_runs
            ELSE DOMAIN bk_runs \ {Len(bk_runs)}

\* an occurrence whose attempts all failed
AllFailed(n) == \A k \in DOMAIN bk_runs[n].attempts :
                   bk_runs[n].attempts[k].returncode # 0

\* C18: an occurrence of the backup job spawns the subprocess at most 3
\* times; an attempt that exits with code 0 is its last and is followed by
\* no wait; an occurrence that has returned without such an attempt made
\* exactly 3.
C18_AtMostThreeAttempts ==
    \A n \in DOMAIN bk_runs :
        LET a == bk_runs[n].attempts
        IN /\ Len(a) <= 3
           /\ \A k \in DOMAIN a :
                 a[k].returncode = 0 => k = Len(a) /\ a[k].wait = 0
           /\ (n \in Returned /\ AllFailed(n)) => Len(a) = 3

\* C18 witness: an occurrence returned after three failed attempts, the
\* next one after a failure and a success
C18_Witness ==
    /\ Returned = {1, 2}
    /\ Len(bk_runs[1].attempts) = 3 /\ AllFailed(1)
    /\ Len(bk_runs[2].attempts) = 2
    /\ bk_runs[2].attempts[2].returncode = 0

\* C19: the wait after the k-th failed attempt of an occurrence is
\* 120 * 2^k seconds (240, 480, 960), whatever the command line.
C19_ExponentialBackoff ==
    \A n \in DOMAIN bk_runs :
        \A k \in DOMAIN bk_runs[n].attempts :
            bk_runs[n].attempts[k].returncode # 0 =>
                bk_runs[n].attempts[k].wait = 120 * 2 ^ k

\* C20: an occurrence whose attempts all failed returns, and the occurrence
\* that follows it starts at the next 24-hour occurrence of the trigger time:
\* 24 hours after it started.
C20_RetriedNextDay ==
    \A n \in DOMAIN bk_runs :
        (AllFailed(n) /\ n + 1 \in DOMAIN bk_runs) =>
            bk_runs[n + 1].at = bk_runs[n].at + 24 * 60 * 60

\* C21: once the shutdown trigger has run, no backup schedule is running
\* or pending.
C21_ShutdownCancels ==
    sch_pc = "shutdown" =>
        \A k \in DOMAIN timers : timers[k].state \notin {"pending", "running"}

\* C22: a start that found no schedule configured chose an hour of
\* {2, 3, 4, 9, 10} and a minute of 0..59, its trigger times are that hour
\* and minute and the time 12 hours later on the same day, and every later
\* start chooses nothing and computes the same trigger times.
C22_DefaultSchedule ==
    \A n \in DOMAIN sch_log :
        sch_log[n].chosen # <<>> =>
            LET hour == sch_log[n].chosen[1]
                minute == sch_log[n].chosen[2]
            IN /\ hour \in {2, 3, 4, 9, 10} /\ minute \in 0..59
               /\ hour + 12 <= 23
               /\ sch_log[n].backup_hours = <<<<hour, minute>>,
                                              <<hour + 12, minute>>>>
               /\ \A k \in DOMAIN sch_log :
                     k > n => /\ sch_log[k].chosen = <<>>
                              /\ sch_log[k].backup_hours = sch_log[n].backup_hours

\* C22 witness: 9:05 and 21:05 were chosen, and read back by a second start
C22_Witness ==
    /\ Len(sch_log) = 2
    /\ sch_log[1].chosen = <<9, 5>>
    /\ sch_log[2].backup_hours = <<<<9, 5>>, <<21, 5>>>>
    /\ config = <<<<"9", ":", "5", ",", "2", "1", ":", "5">>>>

\* the next occurrence of the trigger time hm at or after the datetime at
NextOccurrence(hm, at) ==
    LET today == hm[1] * 3600 + hm[2] * 60
    IN IF today > at.sec \/ (today = at.sec /\ at.usec = 0)
       THEN [sec |-> today, usec |-> 0]
       ELSE [sec |-> today + 86400, usec |-> 0]

\* C23: the first run of each trigger time is due at the next occurrence of
\* its H:M at or after the current time, the delay is at least 0 and less
\* than 24 hours, and the job recurs every 24 hours from then on.
C23_FirstRunAtOccurrence ==
    \A k \in DOMAIN timers :
        /\ timers[k].delay \in 0..(86400 - 1)
        /\ timers[k].state = "pending" =>
               timers[k].due = NextOccurrence(backup_hours[k], sch_now[k])
        /\ timers[k].state = "running" =>
               /\ timers[k].interval = 86400
               /\ timers[k].due.sec =
                     NextOccurrence(backup_hours[k], sch_now[k]).sec + 86400
               /\ timers[k].due.usec = 0

\* the threads that run the function
ThreadsOf(function) == {k \in DOMAIN threads : threads[k].function = function}

\* C24: once the server serves, every registered worker function runs on
\* exactly one thread of its own, and there are as many worker threads as
\* registered functions; no function is ever on two threads.
C24_WorkersStartedOnce ==
    /\ \A j \in DOMAIN WORKERS : Cardinality(ThreadsOf(WORKERS[j])) <= 1
    /\ work_pc = "serving" =>
          /\ Len(threads) = Len(WORKERS)
          /\ Len(WORKERS) = Len(Decorated)
          /\ \A j \in DOMAIN WORKERS : Cardinality(ThreadsOf(WORKERS[j])) = 1

\* C24 witness: the server serves and both workers run
C24_Witness ==
    /\ work_pc = "serving"
    /\ Len(threads) = 2
    /\ \A k \in DOMAIN threads : threads[k].state = "running"

\* C25: a worker thread that an unhandled error ended stays dead, no thread
\* is started for its function, and no event of its types is published
\* from then on.
C25_CrashedWorkerStaysDead ==
    [][\A k \in DOMAIN threads :
          threads[k].state = "dead" =>
              /\ k \in DOMAIN threads' /\ threads'[k].state = "dead"
              /\ ThreadsOf(threads[k].function)' = ThreadsOf(threads[k].function)
              /\ published'[threads[k].function] = published[threads[k].function]
      ]_vars

\* C25 witness: after a worker crashed the other worker has published and a
\* request was served
C25_Witness ==
    \E k, j \in DOMAIN threads :
        /\ threads[k].state = "dead"
        /\ j # k
        /\ Len(published[threads[j].function]) >
              Len(threads[k].seen.published[threads[j].function])
        /\ served > threads[k].seen.served

\* C26: no step takes a queue out of the subscriber list or moves it; the
\* list holds as many queues as subscribe calls were made; and every queue
\* that was registered when a publish started, also one whose client is
\* gone, holds the event once the publish has returned.
C26_SubscribersOnlyGrow ==
    [][/\ Len(streams') >= Len(streams)
       /\ \A i \in DOMAIN streams : streams'[i] = streams[i]
       /\ Len(streams') = Cardinality({c \in Clients : sub'[c] # "idle"})
       /\ \A e \in ended' : \A c \in began'[e].streams :
             \E i \in DOMAIN puts'[c] : puts'[c][i] = Event(e)
      ]_vars

\* C26 witness: a client went away and an event whose publish started
\* afterwards was put in its queue
C26_Witness ==
    \E c \in Clients :
        /\ left[c] # <<>>
        /\ \E e \in ended :
              /\ e \notin left[c][1]
              /\ \E i \in DOMAIN puts[c] : puts[c][i] = Event(e)

\* the steps of restore_database, in order
RestoreOrder == <<"restore", "dropdb", "createdb", "psql">>

StepOf(t) == pc'[t] # pc[t]

\* C28: a request that is rejected writes nothing to the session file: no
\* step of a request leaves the file changed while the request carries an
\* error response, and neither its load nor its validation writes.
C28_RejectedWritesNothing ==
    [][\A t \in Threads :
          (/\ StepOf(t)
           /\ \/ response[t] # 0
              \/ response'[t] # 0
              \/ pc[t] = "load"
              \/ pc[t] = "enter" /\ req[t].kind = "protected")
          => file' = file
      ]_vars

\* C28 witness: a request was rejected because its session had expired, and
\* the expired session is still in the file, with its old date
C28_Witness ==
    \E t \in Threads :
        /\ pc[t] = "done" /\ response[t] # 0
        /\ hist[t].found
        /\ file.state = "ok"
        /\ req[t].header \in DOMAIN file.data
        /\ file.data[req[t].header].date = hist[t].chk_date

\* C29: when an access to the store ends (rejected in the validation, or
\* after the dump), the entries its GC pass removed are not in the file.
C29_GCPersisted ==
    [][\A t \in Threads :
          (/\ StepOf(t)
           /\ \/ pc[t] = "enter" /\ pc'[t] = "done"
              \/ pc[t] = "save_dump")
          => \A k \in (IF pc[t] = "enter" THEN hist'[t].gc ELSE hist[t].gc) :
                ~(file'.state = "ok" /\ k \in DOMAIN file'.data)
      ]_vars

\* C30: successive drawer events are of different types, and the first one
\* is DRAWER_ALERT_OPEN exactly when the baseline sample, the one taken
\* before the loop, was closed.
C30_EventsAlternate ==
    /\ \A j \in 1..(Len(alerts) - 1) : alerts[j].type # alerts[j + 1].type
    /\ alerts # <<>> =>
          (alerts[1].type = "DRAWER_ALERT_OPEN" <=> ~samples[1])

\* C30 witness: the baseline was open and the events are CLOSE, OPEN, CLOSE
C30_Witness ==
    /\ samples # <<>> /\ samples[1]
    /\ Len(alerts) = 3
    /\ alerts[1].type = "DRAWER_ALERT_CLOSE"
    /\ alerts[2].type = "DRAWER_ALERT_OPEN"
    /\ alerts[3].type = "DRAWER_ALERT_CLOSE"

\* notification n names a watched table and arrived with a round of the
\* worker still to come
Awaited(n) ==
    IF n \in DOMAIN arrived
    THEN arrived[n].table \in WatchTables /\ arrived[n].round < MaxPolls
    ELSE FALSE

\* a round that started after notification n arrived has published
PublishedAfter(n) ==
    IF n \in DOMAIN arrived
    THEN \E i \in DOMAIN polls :
            i > arrived[n].round /\ polls[i].published >= 1
    ELSE FALSE

Alive == {c \in DOMAIN children : children[c].state = "alive"}

\* C32: at most one helper child runs, it is the last one spawned, and
\* every child before it had exited, and its restart delay had passed, when
\* the next one was spawned.
C32_AtMostOneChild ==
    /\ Cardinality(Alive) <= 1
    /\ \A c \in Alive : c = Len(children)
    /\ \A k \in 1..(Len(children) - 1) :
          /\ children[k].state = "exited"
          /\ children[k + 1].spawned >=
                children[k].exited + RestartDelay(children[k].returncode)

\* C32 witness: two children have exited and the third one runs
C32_Witness ==
    /\ Len(children) = 3
    /\ Alive = {3}
    /\ rtc_pc = "wait"

\* C33: at most one backup subprocess runs; a subprocess belongs to the
\* call of _backup_task that runs and none outlives its call; a call of
\* _backup_task begins only when the one before it is over, retry waits
\* included, and no earlier than it was due.
C33_OneBackupAtATime ==
    /\ Cardinality({p \in DOMAIN procs : procs[p].alive}) <= 1
    /\ \A p \in DOMAIN procs :
          /\ procs[p].alive => p = Len(procs) /\ procs[p].job = Len(jobs)
          /\ p < Len(procs) => procs[p].end <= procs[p + 1].begin
    /\ \A j \in DOMAIN jobs :
          /\ jobs[j].due <= jobs[j].begin
          /\ j < Len(jobs) =>
                /\ jobs[j].over
                /\ jobs[j].end <= jobs[j + 1].begin
                /\ \A p \in DOMAIN procs :
                      procs[p].job = j => procs[p].end <= jobs[j].end

\* C33 witness: a job that failed three times was still in its retry waits
\* when the other trigger time came, and the other job began when it ended
C33_Witness ==
    \E j \in DOMAIN jobs :
        /\ j < Len(jobs)
        /\ Cardinality({p \in DOMAIN procs : procs[p].job = j}) = 3
        /\ jobs[j + 1].k # jobs[j].k
        /\ jobs[j + 1].due > jobs[j].begin
        /\ jobs[j + 1].due < jobs[j].end
        /\ jobs[j + 1].begin = jobs[j].end

====
